---- MODULE Spec2Model ----
(***************************************************************************)
(* Verification model of the Iceberg Terraform provider                    *)
(* (apache/iceberg-terraform, package internal/provider).                  *)
(*                                                                         *)
(* Independent parts share this module, each with its own specification:  *)
(*   SpecNamespace  - iceberg_namespace Create/Read/Update/Delete against  *)
(*                    a REST catalog that stores what it is sent           *)
(*   SpecPrincipal  - iceberg_polaris_principal Create/Read/Update/Delete  *)
(*                    against a Polaris management server                  *)
(*   SpecHeaders    - polarisClient.do building the request headers        *)
(*   SpecParse      - stringToType, the parser of type strings             *)
(*   SpecConvert    - a field written to the catalog and read back by each *)
(*                    of the schema conversions                            *)
(*   SpecRoundTrip  - an Iceberg field converted to its Terraform value    *)
(*                    and back (table_schema.go)                           *)
(*   SpecDepth      - fields with nested structs converted in either       *)
(*                    direction, by table_schema.go and by the three-level *)
(*                    variant                                              *)
(*   SpecProvider   - the provider's Configure and a namespace resource    *)
(*                    taking its catalog from the provider                 *)
(***************************************************************************)
EXTENDS Integers, Sequences, FiniteSets, TLC

VARIABLES
    nsSrv,      \* the catalog's record of the namespace: [exists, props]
    nsState,    \* the Terraform state of iceberg_namespace: [present, user, server]
    nsLast,     \* what the last namespace handler did (history)
    prSrv,      \* the Polaris server's record of the principal
    prState,    \* the Terraform state of iceberg_polaris_principal
    prLast,     \* what the last principal handler did (history)
    prOutside,  \* the principal was modified outside Terraform since the
                \* state was last written from a server response
    hdrCall,    \* the last call of polarisClient.do: [made, token, body, headers]
    hdrSent,    \* the header of the request that call handed to httpClient.Do
    tyParse,    \* the last call of stringToType: its input and its result
    tyRound,    \* a declared field, the type the catalog holds for it and
                \* the type attribute read back
    rtField,    \* an Iceberg field, the Terraform value read from it and
                \* the Iceberg type written from that value
    dpCall,     \* a conversion of a field with nested structs: its input,
                \* its direction and what it returned
    pvProvider, \* the icebergProvider: [catalogURI, catalogType, token,
                \* warehouse, headers]
    pvConfigure,\* the provider's Configure: its configuration and response
    pvResource  \* a namespace resource: [made, provider, catalog, diags]

nsVars == <<nsSrv, nsState, nsLast>>

prVars == <<prSrv, prState, prLast, prOutside>>

hdrVars == <<hdrCall, hdrSent>>

tyVars == <<tyParse, tyRound>>

rtVars == <<rtField>>

dpVars == <<dpCall>>

pvVars == <<pvProvider, pvConfigure, pvResource>>

(***************************************************************************)
(* Maps (Go map[string]string / types.Map) are functions on a finite set   *)
(* of keys.  A nullable Terraform map is [null |-> BOOLEAN, m |-> map].    *)
(***************************************************************************)
EmptyMap == [k \in {} |-> ""]

Maps(K, V) == UNION {[S -> V] : S \in SUBSET K}

MapUpdate(m, u) ==
    [k \in (DOMAIN m) \cup (DOMAIN u) |-> IF k \in DOMAIN u THEN u[k] ELSE m[k]]

MapRemove(m, S) == [k \in (DOMAIN m) \ S |-> m[k]]

NullMap == [null |-> TRUE, m |-> EmptyMap]

SomeMap(m) == [null |-> FALSE, m |-> m]

\* ElementsAs into a fresh make(map[string]string) when the value is not null
ElementsOf(tfmap) == IF tfmap.null THEN EmptyMap ELSE tfmap.m

(***************************************************************************)
(* Namespace resource                                                      *)
(***************************************************************************)
UserKeys == {"description"}

ServerKeys == {"location"}

NsKeys == UserKeys \cup ServerKeys

NsValues == {"a", "b"}

\* the plans Terraform can hand to Create and Update
NsPlans == {NullMap} \cup {SomeMap(m) : m \in Maps(UserKeys, NsValues)}

NsNoState == [present |-> FALSE, user |-> NullMap, server |-> EmptyMap]

NsNoSrv == [exists |-> FALSE, props |-> EmptyMap]

NsIdle ==
    [op |-> "none", plan |-> NullMap, prior |-> NullMap,
     sent |-> FALSE, updates |-> EmptyMap, removals |-> {},
     loaded |-> FALSE, nsProps |-> EmptyMap,
     wrote |-> FALSE, error |-> FALSE, existed |-> FALSE, changed |-> {}]

\* the keys whose value on the server differs between two catalog records
NsChangedKeys(before, after) ==
    {k \in NsKeys :
        \/ (k \in DOMAIN before.props) # (k \in DOMAIN after.props)
        \/ /\ k \in DOMAIN before.props
           /\ k \in DOMAIN after.props
           /\ before.props[k] # after.props[k]}

\* (mutation of NsUpdates: only keys new to the state are sent)
NsUpdatesNewKeysOnly(planProps, stateProps) ==
    [k \in {x \in DOMAIN planProps : x \notin DOMAIN stateProps} |-> planProps[k]]

\* updates: keys in plan that differ from state
NsUpdates(planProps, stateProps) ==
    [k \in {x \in DOMAIN planProps :
                x \notin DOMAIN stateProps \/ stateProps[x] # planProps[x]}
        |-> planProps[k]]

\* (mutation of NsRemovals: every key the state knows of, tracked or not)
NsRemovalsUntracked(planProps, stateProps) ==
    ((DOMAIN stateProps) \cup (DOMAIN nsState.server)) \ (DOMAIN planProps)

\* (mutation of NsRemovals: nothing is ever removed)
NsRemovalsNone(planProps, stateProps) == {}

\* removals: keys in state that are NOT in plan
NsRemovals(planProps, stateProps) == (DOMAIN stateProps) \ (DOMAIN planProps)

\* managedProps: the tracked keys, with the values confirmed from the server
NsManagedProps(tracked, nsProps) ==
    [k \in (DOMAIN tracked) \cap (DOMAIN nsProps) |-> nsProps[k]]

\* (mutation of NsFullProperties: only the keys a user can manage)
NsFullPropertiesUserOnly(nsProps) ==
    [k \in (DOMAIN nsProps) \cap UserKeys |-> nsProps[k]]

\* ServerProperties gets everything LoadNamespaceProperties returned
NsFullProperties(nsProps) == nsProps

\* UserProperties is rebuilt only when the plan/state value is not null
NsUserProperties(tfmap, tracked, nsProps) ==
    IF tfmap.null THEN tfmap ELSE SomeMap(NsManagedProps(tracked, nsProps))

\* The catalog applies removals, then updates (REST updateProperties)
CatalogUpdateNamespaceProperties(srv, removals, updates) ==
    [srv EXCEPT !.props = MapUpdate(MapRemove(srv.props, removals), updates)]

\* The catalog stores the properties it is sent, plus the ones it sets itself
CatalogCreateNamespace(userProperties, serverSet) ==
    [exists |-> TRUE, props |-> MapUpdate(serverSet, userProperties)]

NsInit ==
    /\ nsSrv = NsNoSrv
    /\ nsState = NsNoState
    /\ nsLast = NsIdle

\* icebergNamespaceResource.Create
NsCreate ==
    \E plan \in NsPlans, serverSet \in Maps(ServerKeys, NsValues),
       fail \in {"none", "create", "load"} :
        LET userProperties == ElementsOf(plan)
            createOk == ~nsSrv.exists /\ fail # "create"
            srv1 == IF createOk THEN CatalogCreateNamespace(userProperties, serverSet)
                    ELSE nsSrv
            loadOk == createOk /\ fail # "load"
            nsProps == srv1.props
        IN  /\ ~nsState.present
            /\ nsSrv' = srv1
            /\ nsState' =
                 IF loadOk
                 THEN [present |-> TRUE,
                       user |-> NsUserProperties(plan, userProperties, nsProps),
                       server |-> NsFullProperties(nsProps)]
                 ELSE nsState
            /\ nsLast' =
                 [op |-> "Create", plan |-> plan, prior |-> NullMap,
                  sent |-> FALSE, updates |-> EmptyMap, removals |-> {},
                  loaded |-> loadOk,
                  nsProps |-> IF loadOk THEN nsProps ELSE EmptyMap,
                  wrote |-> loadOk, error |-> ~loadOk,
                  existed |-> nsSrv.exists,
                  changed |-> NsChangedKeys(nsSrv, srv1)]

\* icebergNamespaceResource.Read
NsRead ==
    \E fail \in {"none", "load"} :
        LET gone == ~nsSrv.exists
            loadOk == ~gone /\ fail # "load"
            nsProps == nsSrv.props
        IN  /\ nsState.present
            /\ nsSrv' = nsSrv
            /\ nsState' =
                 IF loadOk
                 THEN [nsState EXCEPT
                         !.server = NsFullProperties(nsProps),
                         !.user = NsUserProperties(nsState.user,
                                                   ElementsOf(nsState.user), nsProps)]
                 ELSE IF gone /\ fail # "load" THEN NsNoState
                 ELSE nsState
            /\ nsLast' =
                 [op |-> "Read", plan |-> NullMap, prior |-> nsState.user,
                  sent |-> FALSE, updates |-> EmptyMap, removals |-> {},
                  loaded |-> loadOk,
                  nsProps |-> IF loadOk THEN nsProps ELSE EmptyMap,
                  wrote |-> loadOk, error |-> (fail = "load"),
                  existed |-> nsSrv.exists, changed |-> {}]

\* icebergNamespaceResource.Update
NsUpdate ==
    \E plan \in NsPlans, fail \in {"none", "update", "load"} :
        LET stateProps == ElementsOf(nsState.user)
            planProps == ElementsOf(plan)
            updates == NsUpdates(planProps, stateProps)
            removals == NsRemovals(planProps, stateProps)
            noop == (DOMAIN updates = {}) /\ (removals = {})
            updateOk == ~noop /\ nsSrv.exists /\ fail # "update"
            srv1 == IF updateOk
                    THEN CatalogUpdateNamespaceProperties(nsSrv, removals, updates)
                    ELSE nsSrv
            loadOk == updateOk /\ fail # "load"
            nsProps == srv1.props
        IN  /\ nsState.present
            /\ nsSrv' = srv1
            /\ nsState' =
                 IF loadOk
                 THEN [present |-> TRUE,
                       user |-> NsUserProperties(plan, planProps, nsProps),
                       server |-> NsFullProperties(nsProps)]
                 ELSE nsState
            /\ nsLast' =
                 [op |-> "Update", plan |-> plan, prior |-> nsState.user,
                  sent |-> ~noop,
                  updates |-> IF noop THEN EmptyMap ELSE updates,
                  removals |-> IF noop THEN {} ELSE removals,
                  loaded |-> loadOk,
                  nsProps |-> IF loadOk THEN nsProps ELSE EmptyMap,
                  wrote |-> loadOk, error |-> (~noop /\ ~loadOk),
                  existed |-> nsSrv.exists,
                  changed |-> NsChangedKeys(nsSrv, srv1)]

\* icebergNamespaceResource.Delete
NsDelete ==
    \E fail \in {"none", "drop"} :
        LET dropOk == fail # "drop"
        IN  /\ nsState.present
            /\ nsSrv' = IF dropOk THEN NsNoSrv ELSE nsSrv
            /\ nsState' = IF dropOk THEN NsNoState ELSE nsState
            /\ nsLast' =
                 [NsIdle EXCEPT !.op = "Delete", !.prior = nsState.user,
                                !.error = ~dropOk,
                                !.existed = nsSrv.exists,
                                !.changed = IF dropOk THEN DOMAIN nsSrv.props ELSE {}]

\* Another client of the catalog sets, removes or drops behind the provider's back
NsExternalSet ==
    \E k \in NsKeys, v \in NsValues :
        /\ nsSrv.exists
        /\ nsSrv' = [nsSrv EXCEPT !.props = MapUpdate(@, [x \in {k} |-> v])]
        /\ UNCHANGED <<nsState, nsLast>>

NsExternalRemove ==
    \E k \in NsKeys :
        /\ nsSrv.exists
        /\ k \in DOMAIN nsSrv.props
        /\ nsSrv' = [nsSrv EXCEPT !.props = MapRemove(@, {k})]
        /\ UNCHANGED <<nsState, nsLast>>

NsExternalDrop ==
    /\ nsSrv.exists
    /\ nsSrv' = NsNoSrv
    /\ UNCHANGED <<nsState, nsLast>>

NsNext ==
    \/ NsCreate /\ UNCHANGED <<prVars, hdrVars, tyVars, rtVars, dpVars, pvVars>>
    \/ NsRead /\ UNCHANGED <<prVars, hdrVars, tyVars, rtVars, dpVars, pvVars>>
    \/ NsUpdate /\ UNCHANGED <<prVars, hdrVars, tyVars, rtVars, dpVars, pvVars>>
    \/ NsDelete /\ UNCHANGED <<prVars, hdrVars, tyVars, rtVars, dpVars, pvVars>>
    \/ NsExternalSet /\ UNCHANGED <<prVars, hdrVars, tyVars, rtVars, dpVars, pvVars>>
    \/ NsExternalRemove /\ UNCHANGED <<prVars, hdrVars, tyVars, rtVars, dpVars, pvVars>>
    \/ NsExternalDrop /\ UNCHANGED <<prVars, hdrVars, tyVars, rtVars, dpVars, pvVars>>

(***************************************************************************)
(* Properties of the namespace resource                                    *)
(***************************************************************************)
NsTracked == (DOMAIN ElementsOf(nsLast.plan)) \cup (DOMAIN ElementsOf(nsLast.prior))

NsDropped == (DOMAIN ElementsOf(nsLast.prior)) \ (DOMAIN ElementsOf(nsLast.plan))

\* C1: a namespace Create, Read or Update sends updates and removals only for
\* keys of the plan's or the prior state's user_properties, and changes the
\* server value of no key of an existing namespace outside those two maps.
NsOnlyTrackedKeysChanged ==
    nsLast.op \in {"Create", "Read", "Update"} =>
        /\ ((DOMAIN nsLast.updates) \cup nsLast.removals) \subseteq NsTracked
        /\ nsLast.existed => nsLast.changed \subseteq NsTracked

\* an Update went through while the server held a key outside plan and state
NsUntrackedKeyKept ==
    /\ nsLast.op = "Update"
    /\ nsLast.wrote
    /\ nsLast.changed # {}
    /\ \E k \in DOMAIN nsLast.nsProps : k \notin NsTracked

\* C2: after a Create or an Update that reports no error, for every key k the
\* plan sets to a value v that a Create sends, or that differs from the prior
\* state's user_properties in an Update, user_properties[k] and
\* server_properties[k] of the state both hold v.
NsPlannedValueInState ==
    (nsLast.op \in {"Create", "Update"} /\ ~nsLast.error) =>
        \A k \in DOMAIN ElementsOf(nsLast.plan) :
            (\/ nsLast.op = "Create"
             \/ k \notin DOMAIN ElementsOf(nsLast.prior)
             \/ nsLast.prior.m[k] # nsLast.plan.m[k]) =>
                /\ nsLast.wrote
                /\ ~nsState.user.null
                /\ k \in DOMAIN nsState.user.m
                /\ nsState.user.m[k] = nsLast.plan.m[k]
                /\ k \in DOMAIN nsState.server
                /\ nsState.server[k] = nsLast.plan.m[k]

\* an Update replaced the value of a key the prior state already tracked
NsValueChangedByUpdate ==
    /\ nsLast.op = "Update"
    /\ nsLast.wrote
    /\ \E k \in DOMAIN nsLast.updates :
          /\ k \in DOMAIN ElementsOf(nsLast.prior)
          /\ nsLast.prior.m[k] # nsLast.updates[k]

\* C3: an Update whose plan lacks a key of the prior user_properties sends
\* the key as a removal, and when it succeeds the key is in neither
\* user_properties nor server_properties of the new state.
NsDroppedKeyRemoved ==
    (nsLast.op = "Update" /\ NsDropped # {}) =>
        /\ nsLast.sent
        /\ NsDropped \subseteq nsLast.removals
        /\ nsLast.wrote =>
              \A k \in NsDropped :
                  /\ k \notin DOMAIN ElementsOf(nsState.user)
                  /\ k \notin DOMAIN nsState.server

\* an Update succeeded after user_properties was taken out of the configuration
NsAttributeRemovedByUpdate ==
    /\ nsLast.op = "Update"
    /\ nsLast.wrote
    /\ nsLast.plan.null
    /\ NsDropped # {}

\* C4: whenever a handler writes state, server_properties is exactly the map
\* LoadNamespaceProperties returned in that handler.
NsServerPropertiesAreLoaded ==
    nsLast.wrote =>
        /\ nsLast.loaded
        /\ nsState.present
        /\ nsState.server = nsLast.nsProps

\* state was written while the server held both a user-set and a server-set key
NsLoadedUserAndServerKeys ==
    /\ nsLast.wrote
    /\ \E k \in UserKeys : k \in DOMAIN nsLast.nsProps
    /\ \E k \in ServerKeys : k \in DOMAIN nsLast.nsProps

(***************************************************************************)
(* Polaris principal resource                                              *)
(***************************************************************************)
MaxVersion == 3

PrPlanName == "alice"

\* the name as the server reports it back
PrServerNames == {"alice", "ALICE"}

PrClientIds == {"id-1", "id-2"}

PrSecrets == {"secret-1", "secret-2"}

PrPropMaps == Maps({"team"}, {"data", "ml"})

PrPlans ==
    [name : {PrPlanName},
     properties : {NullMap} \cup {SomeMap(m) : m \in PrPropMaps},
     credential_rotation_required : BOOLEAN]

PrNoSrv ==
    [exists |-> FALSE, name |-> "", props |-> EmptyMap, version |-> 0, clientId |-> ""]

PrNoState ==
    [present |-> FALSE, id |-> "", name |-> "", properties |-> NullMap,
     credential_rotation_required |-> FALSE,
     client_id |-> "", client_secret |-> "", entity_version |-> 0]

\* the zero value of polarisPrincipalWithCredentials / polarisPrincipal
PrNoResponse ==
    [name |-> "", props |-> EmptyMap, version |-> 0, clientId |-> "",
     credId |-> "", credSecret |-> ""]

PrIdle ==
    [op |-> "none", result |-> "none", wrote |-> FALSE, error |-> FALSE,
     prior |-> PrNoState, sentVersion |-> 0, srvExisted |-> FALSE,
     srvVersion |-> 0, outside |-> FALSE, returned |-> PrNoResponse]

\* the polarisPrincipal JSON body of the server's record
PrPrincipalOf(srv) ==
    [name |-> srv.name, props |-> srv.props, version |-> srv.version,
     clientId |-> srv.clientId, credId |-> "", credSecret |-> ""]

\* properties become null when the server returns none
PrPropertiesValue(props) == IF DOMAIN props = {} THEN NullMap ELSE SomeMap(props)

\* (mutation of PrCreatedState: the client id is read from principal.clientId)
PrCreatedStatePrincipalClientId(plan, created) ==
    [present |-> TRUE,
     id |-> created.name,
     name |-> created.name,
     properties |-> PrPropertiesValue(created.props),
     credential_rotation_required |-> plan.credential_rotation_required,
     client_id |-> created.clientId,
     client_secret |-> created.credSecret,
     entity_version |-> created.version]

\* the state Create writes from the plan and the CreatePrincipal response
PrCreatedState(plan, created) ==
    [present |-> TRUE,
     id |-> created.name,
     name |-> created.name,
     properties |-> PrPropertiesValue(created.props),
     credential_rotation_required |-> plan.credential_rotation_required,
     client_id |-> created.credId,
     client_secret |-> created.credSecret,
     entity_version |-> created.version]

\* (mutation of PrReadState: the client id is refreshed from the GET response)
PrReadStateRefreshClientId(state, principal) ==
    [state EXCEPT !.properties = PrPropertiesValue(principal.props),
                  !.entity_version = principal.version,
                  !.client_id = principal.clientId]

\* the state Read writes: properties and entity version from the GET response
PrReadState(state, principal) ==
    [state EXCEPT !.properties = PrPropertiesValue(principal.props),
                  !.entity_version = principal.version]

\* (mutation of PrUpdateRequest: the version is read from the plan, where the
\* computed entity_version is unknown and ValueInt64 yields 0)
PrUpdateRequestPlanVersion(plan, state) ==
    [currentEntityVersion |-> 0,
     properties |-> ElementsOf(plan.properties)]

\* the polarisUpdatePrincipalRequest Update sends
PrUpdateRequest(plan, state) ==
    [currentEntityVersion |-> state.entity_version,
     properties |-> ElementsOf(plan.properties)]

\* the state Update writes from the plan, the prior state and the PUT response
PrUpdatedState(plan, state, updated) ==
    [present |-> TRUE,
     id |-> state.id,
     name |-> state.name,
     properties |-> PrPropertiesValue(updated.props),
     credential_rotation_required |-> plan.credential_rotation_required,
     client_id |-> state.client_id,
     client_secret |-> state.client_secret,
     entity_version |-> updated.version]

PrInit ==
    /\ prSrv = PrNoSrv
    /\ prState = PrNoState
    /\ prLast = PrIdle
    /\ prOutside = FALSE

\* polarisPrincipalResource.Create
PrCreate ==
    \E plan \in PrPlans, srvName \in PrServerNames, srvProps \in PrPropMaps,
       cid \in PrClientIds, secret \in PrSecrets, pcid \in PrClientIds \cup {""},
       fail \in BOOLEAN :
        LET ok == ~prSrv.exists /\ ~fail
            srv1 == [exists |-> TRUE, name |-> srvName, props |-> srvProps,
                     version |-> 1, clientId |-> cid]
            created == [PrPrincipalOf(srv1) EXCEPT !.clientId = pcid,
                                                   !.credId = cid,
                                                   !.credSecret = secret]
        IN  /\ ~prState.present
            /\ prSrv' = IF ok THEN srv1 ELSE prSrv
            /\ prState' = IF ok THEN PrCreatedState(plan, created) ELSE prState
            /\ prOutside' = IF ok THEN FALSE ELSE prOutside
            /\ prLast' =
                 [op |-> "Create", result |-> IF ok THEN "ok" ELSE "error",
                  wrote |-> ok, error |-> ~ok, prior |-> prState,
                  sentVersion |-> 0, srvExisted |-> prSrv.exists,
                  srvVersion |-> prSrv.version, outside |-> prOutside,
                  returned |-> IF ok THEN created ELSE PrNoResponse]

\* polarisPrincipalResource.Read
PrRead ==
    \E fail \in BOOLEAN :
        LET found == prSrv.exists
            ok == found /\ ~fail
            removed == ~found /\ ~fail
            principal == PrPrincipalOf(prSrv)
        IN  /\ prState.present
            /\ prSrv' = prSrv
            /\ prState' = IF ok THEN PrReadState(prState, principal)
                          ELSE IF removed THEN PrNoState
                          ELSE prState
            /\ prOutside' = IF ok \/ removed THEN FALSE ELSE prOutside
            /\ prLast' =
                 [op |-> "Read",
                  result |-> IF ok THEN "ok" ELSE IF removed THEN "removed" ELSE "error",
                  wrote |-> ok, error |-> fail, prior |-> prState,
                  sentVersion |-> 0, srvExisted |-> prSrv.exists,
                  srvVersion |-> prSrv.version, outside |-> prOutside,
                  returned |-> IF ok THEN principal ELSE PrNoResponse]

\* polarisPrincipalResource.Update
PrUpdate ==
    \E plan \in PrPlans, fail \in BOOLEAN :
        LET updateReq == PrUpdateRequest(plan, prState)
            found == prSrv.exists
            removed == ~found /\ ~fail
            conflict == found /\ ~fail
                        /\ updateReq.currentEntityVersion # prSrv.version
            ok == found /\ ~fail /\ ~conflict
            srv1 == [prSrv EXCEPT !.props = updateReq.properties,
                                  !.version = prSrv.version + 1]
            updated == PrPrincipalOf(srv1)
        IN  /\ prState.present
            /\ ok => prSrv.version < MaxVersion
            /\ prSrv' = IF ok THEN srv1 ELSE prSrv
            /\ prState' = IF ok THEN PrUpdatedState(plan, prState, updated)
                          ELSE IF removed THEN PrNoState
                          ELSE prState
            /\ prOutside' = IF ok \/ removed THEN FALSE ELSE prOutside
            /\ prLast' =
                 [op |-> "Update",
                  result |-> IF ok THEN "ok" ELSE IF removed THEN "removed"
                             ELSE IF conflict THEN "conflict" ELSE "error",
                  wrote |-> ok, error |-> (fail \/ conflict), prior |-> prState,
                  sentVersion |-> updateReq.currentEntityVersion,
                  srvExisted |-> prSrv.exists,
                  srvVersion |-> prSrv.version, outside |-> prOutside,
                  returned |-> IF ok THEN updated ELSE PrNoResponse]

\* polarisPrincipalResource.Delete
PrDelete ==
    \E fail \in BOOLEAN :
        /\ prState.present
        /\ prSrv' = IF fail THEN prSrv ELSE PrNoSrv
        /\ prState' = IF fail THEN prState ELSE PrNoState
        /\ prOutside' = IF fail THEN prOutside ELSE FALSE
        /\ prLast' =
             [PrIdle EXCEPT !.op = "Delete",
                            !.result = IF fail THEN "error" ELSE "ok",
                            !.error = fail, !.prior = prState,
                            !.srvExisted = prSrv.exists,
                            !.srvVersion = prSrv.version,
                            !.outside = prOutside]

\* Someone else updates the principal or rotates its credentials
PrExternalModify ==
    \E props \in PrPropMaps, cid \in PrClientIds :
        /\ prSrv.exists
        /\ prSrv.version < MaxVersion
        /\ prSrv' = [prSrv EXCEPT !.props = props, !.clientId = cid,
                                  !.version = prSrv.version + 1]
        /\ prOutside' = TRUE
        /\ UNCHANGED <<prState, prLast>>

\* Someone else deletes the principal
PrExternalDelete ==
    /\ prSrv.exists
    /\ prSrv' = PrNoSrv
    /\ prOutside' = FALSE
    /\ UNCHANGED <<prState, prLast>>

PrNext ==
    \/ PrCreate /\ UNCHANGED <<nsVars, hdrVars, tyVars, rtVars, dpVars, pvVars>>
    \/ PrRead /\ UNCHANGED <<nsVars, hdrVars, tyVars, rtVars, dpVars, pvVars>>
    \/ PrUpdate /\ UNCHANGED <<nsVars, hdrVars, tyVars, rtVars, dpVars, pvVars>>
    \/ PrDelete /\ UNCHANGED <<nsVars, hdrVars, tyVars, rtVars, dpVars, pvVars>>
    \/ PrExternalModify /\ UNCHANGED <<nsVars, hdrVars, tyVars, rtVars, dpVars, pvVars>>
    \/ PrExternalDelete /\ UNCHANGED <<nsVars, hdrVars, tyVars, rtVars, dpVars, pvVars>>

(***************************************************************************)
(* Properties of the principal resource                                    *)
(***************************************************************************)
\* C5: after a successful Create the state holds what CreatePrincipal
\* returned: id and name are the returned name, properties the returned
\* properties, client_id and client_secret the returned credentials and
\* entity_version the returned entityVersion.
PrCreateStateIsResponse ==
    (prLast.op = "Create" /\ prLast.wrote) =>
        /\ prState.present
        /\ prState.id = prLast.returned.name
        /\ prState.name = prLast.returned.name
        /\ ElementsOf(prState.properties) = prLast.returned.props
        /\ (DOMAIN prLast.returned.props # {}) => ~prState.properties.null
        /\ prState.client_id = prLast.returned.credId
        /\ prState.client_secret = prLast.returned.credSecret
        /\ prState.entity_version = prLast.returned.version

\* a Create answered with a name, properties and a principal.clientId that
\* differ from the plan and from the issued credentials
PrCreateAnsweredDifferently ==
    /\ prLast.op = "Create"
    /\ prLast.wrote
    /\ prLast.returned.name # PrPlanName
    /\ prLast.returned.clientId # prLast.returned.credId
    /\ DOMAIN prLast.returned.props # {}

PrCredentialsKept ==
    (prLast.op \in {"Read", "Update"} /\ prLast.wrote) =>
        /\ prState.client_id = prLast.prior.client_id
        /\ prState.client_secret = prLast.prior.client_secret
        /\ prState.id = prLast.prior.id
        /\ prState.name = prLast.prior.name

\* a Read wrote state although the server reported another client id
PrReadSawOtherClientId ==
    /\ prLast.op = "Read"
    /\ prLast.wrote
    /\ prLast.returned.clientId # prLast.prior.client_id

(***************************************************************************)
(* polarisClient.do: the request header                                    *)
(*                                                                         *)
(* Header names are sequences of one-character strings, so that            *)
(* http.Header.Set's canonicalisation of the name is computed.             *)
(***************************************************************************)
MaxHeaders == 2

Lowers ==
    <<"a", "b", "c", "d", "e", "f", "g", "h", "i", "j", "k", "l", "m",
      "n", "o", "p", "q", "r", "s", "t", "u", "v", "w", "x", "y", "z">>

Uppers ==
    <<"A", "B", "C", "D", "E", "F", "G", "H", "I", "J", "K", "L", "M",
      "N", "O", "P", "Q", "R", "S", "T", "U", "V", "W", "X", "Y", "Z">>

IndexIn(seq, c) == CHOOSE i \in 1..Len(seq) : seq[i] = c

IsIn(seq, c) == \E i \in 1..Len(seq) : seq[i] = c

ToUpper(c) == IF IsIn(Lowers, c) THEN Uppers[IndexIn(Lowers, c)] ELSE c

ToLower(c) == IF IsIn(Uppers, c) THEN Lowers[IndexIn(Uppers, c)] ELSE c

\* textproto.CanonicalMIMEHeaderKey, as http.Header.Set applies it: the first
\* letter and every letter after a hyphen in upper case, the rest in lower case
CanonicalMIMEHeaderKey(k) ==
    [i \in 1..Len(k) |->
        IF i = 1 \/ k[i - 1] = "-" THEN ToUpper(k[i]) ELSE ToLower(k[i])]

HdrAuthorization == <<"A", "u", "t", "h", "o", "r", "i", "z", "a", "t", "i", "o", "n">>

HdrContentType == <<"C", "o", "n", "t", "e", "n", "t", "-", "T", "y", "p", "e">>

\* header names a user can put into the provider's headers map
HdrNames ==
    {HdrAuthorization,
     <<"a", "u", "t", "h", "o", "r", "i", "z", "a", "t", "i", "o", "n">>,
     HdrContentType,
     <<"c", "o", "n", "t", "e", "n", "t", "-", "t", "y", "p", "e">>,
     <<"X", "-", "T", "r", "a", "c", "e">>,
     <<"x", "-", "t", "r", "a", "c", "e">>}

HdrValues == {"u1", "u2"}

HdrTokens == {"", "tok"}

HdrConfigs ==
    UNION {[S -> HdrValues] : S \in {T \in SUBSET HdrNames : Cardinality(T) <= MaxHeaders}}

Bearer(token) == <<"Bearer ", token>>

ApplicationJSON == <<"application/json">>

UserValue(v) == <<v>>

\* the orders in which Go may range over the map
RangeOrders(m) ==
    {o \in [1..Cardinality(DOMAIN m) -> DOMAIN m] :
        \A i, j \in DOMAIN o : o[i] = o[j] => i = j}

\* req.Header.Set(k, v)
HeaderSet(header, k, v) ==
    MapUpdate(header, [x \in {CanonicalMIMEHeaderKey(k)} |-> v])

\* the header after Content-Type and Authorization were set (lines 88-94)
ClientHeaders(token, body) ==
    LET h0 == EmptyMap
        h1 == IF body THEN HeaderSet(h0, HdrContentType, ApplicationJSON) ELSE h0
    IN  IF token # "" THEN HeaderSet(h1, HdrAuthorization, Bearer(token)) ELSE h1

\* the loop over c.headers: a name that is not a key of req.Header is set
RECURSIVE ConfiguredHeaders(_, _, _)
ConfiguredHeaders(header, headers, order) ==
    IF order = <<>> THEN header
    ELSE LET k == Head(order)
             next == IF k \in DOMAIN header THEN header
                     ELSE HeaderSet(header, k, UserValue(headers[k]))
         IN  ConfiguredHeaders(next, headers, Tail(order))

HdrIdle == [made |-> FALSE, token |-> "", body |-> FALSE, headers |-> EmptyMap]

HdrInit ==
    /\ hdrCall = HdrIdle
    /\ hdrSent = EmptyMap

\* a client as newPolarisClient builds it from the provider's token and headers,
\* and a request with or without a body
HdrInitCall ==
    /\ hdrCall \in [made : {FALSE}, token : HdrTokens, body : BOOLEAN,
                     headers : HdrConfigs]
    /\ hdrSent = EmptyMap

\* polarisClient.do up to httpClient.Do(req)
PolarisClientDo ==
    \E order \in RangeOrders(hdrCall.headers) :
        /\ ~hdrCall.made
        /\ hdrCall' = [hdrCall EXCEPT !.made = TRUE]
        /\ hdrSent' = ConfiguredHeaders(ClientHeaders(hdrCall.token, hdrCall.body),
                                        hdrCall.headers, order)

HdrNext == PolarisClientDo /\ UNCHANGED <<nsVars, prVars, tyVars, rtVars, dpVars, pvVars>>

(***************************************************************************)
(* Properties of the request header                                        *)
(***************************************************************************)
\* C8: a configured header never overrides a header the client has set: with
\* a token the request carries Authorization 'Bearer <token>', with a body it
\* carries Content-Type 'application/json', whatever the headers map holds.
HdrClientHeadersNeverOverridden ==
    hdrCall.made =>
        /\ hdrCall.token # "" =>
              /\ HdrAuthorization \in DOMAIN hdrSent
              /\ hdrSent[HdrAuthorization] = Bearer(hdrCall.token)
        /\ hdrCall.body =>
              /\ HdrContentType \in DOMAIN hdrSent
              /\ hdrSent[HdrContentType] = ApplicationJSON

(***************************************************************************)
(* Type strings and schema conversion                                      *)
(*                                                                         *)
(* A Go string is a sequence of one-character strings, so that the regular *)
(* expressions, strconv.Atoi, fmt.Sprintf and strings.ReplaceAll are       *)
(* computed character by character.                                        *)
(***************************************************************************)
MaxNum == 16

Nums == 0..MaxNum

DigitChars == <<"0", "1", "2", "3", "4", "5", "6", "7", "8", "9">>

DigitSet == {DigitChars[i] : i \in 1..Len(DigitChars)}

\* the characters \s matches
SpaceSet == {" ", "\t", "\n", "\f", "\r"}

StrDecimal == <<"d", "e", "c", "i", "m", "a", "l">>

StrFixed == <<"f", "i", "x", "e", "d">>

StrDecimalOpen == StrDecimal \o <<"(">>

StrFixedOpen == StrFixed \o <<"(">>

StrFixedBracket == StrFixed \o <<"[">>

\* strconv.Atoi on a string of digits
RECURSIVE Atoi(_)
Atoi(ds) ==
    IF ds = <<>> THEN 0
    ELSE Atoi(SubSeq(ds, 1, Len(ds) - 1)) * 10 + (IndexIn(DigitChars, ds[Len(ds)]) - 1)

\* %d of fmt.Sprintf
RECURSIVE Itoa(_)
Itoa(n) ==
    IF n < 10 THEN <<DigitChars[n + 1]>>
    ELSE Itoa(n \div 10) \o <<DigitChars[(n % 10) + 1]>>

\* the number of leading characters of s that are in set
RECURSIVE LeadingCount(_, _)
LeadingCount(s, set) ==
    IF s = <<>> \/ Head(s) \notin set THEN 0
    ELSE 1 + LeadingCount(Tail(s), set)

HasPrefix(s, pre) == Len(s) >= Len(pre) /\ SubSeq(s, 1, Len(pre)) = pre

NoMatch == [matched |-> FALSE, groups |-> <<>>]

\* decimalRegex.FindStringSubmatch: ^decimal\((\d+),\s*(\d+)\)$
DecimalRegexMatch(s) ==
    LET body == SubSeq(s, Len(StrDecimalOpen) + 1, Len(s) - 1)
        n1 == LeadingCount(body, DigitSet)
        afterP == SubSeq(body, n1 + 1, Len(body))
        rest == Tail(afterP)
        d2 == SubSeq(rest, LeadingCount(rest, SpaceSet) + 1, Len(rest))
    IN  IF /\ HasPrefix(s, StrDecimalOpen)
           /\ Len(s) > Len(StrDecimalOpen)
           /\ s[Len(s)] = ")"
           /\ n1 >= 1
           /\ afterP # <<>>
           /\ Head(afterP) = ","
           /\ d2 # <<>>
           /\ LeadingCount(d2, DigitSet) = Len(d2)
        THEN [matched |-> TRUE, groups |-> <<SubSeq(body, 1, n1), d2>>]
        ELSE NoMatch

\* a pattern of the form ^<open>(\d+)<close>$
BracketedNumberMatch(s, open, close) ==
    LET body == SubSeq(s, Len(open) + 1, Len(s) - 1)
    IN  IF /\ HasPrefix(s, open)
           /\ Len(s) > Len(open) + 1
           /\ s[Len(s)] = close
           /\ LeadingCount(body, DigitSet) = Len(body)
        THEN [matched |-> TRUE, groups |-> <<body>>]
        ELSE NoMatch

\* fixedRegex.FindStringSubmatch: ^fixed\((\d+)\)$
FixedRegexMatch(s) == BracketedNumberMatch(s, StrFixedOpen, ")")

\* iceberg.Type values
PrimitiveType(goType) == [kind |-> goType, precision |-> 0, scale |-> 0, len |-> 0]

DecimalTypeOf(p, sc) == [kind |-> "DecimalType", precision |-> p, scale |-> sc, len |-> 0]

FixedTypeOf(n) == [kind |-> "FixedType", precision |-> 0, scale |-> 0, len |-> n]

NoType == PrimitiveType("nil")

\* *iceberg.ListType and *iceberg.MapType values
ListTypeOf(elementID, element, elementRequired) ==
    [kind |-> "ListType", elementID |-> elementID, element |-> element,
     elementRequired |-> elementRequired]

MapTypeOf(keyID, keyType, valueID, valueType, valueRequired) ==
    [kind |-> "MapType", keyID |-> keyID, keyType |-> keyType,
     valueID |-> valueID, valueType |-> valueType, valueRequired |-> valueRequired]

StructTypeOf(fields) == [kind |-> "StructType", fields |-> fields]

\* iceberg.NestedField
NestedField(id, name, typ, required, doc) ==
    [id |-> id, name |-> name, type |-> typ, required |-> required, doc |-> doc]

\* the cases of the switch in stringToType
PrimitiveCases ==
    <<<<<<"b", "o", "o", "l", "e", "a", "n">>, "BooleanType">>,
      <<<<"i", "n", "t">>, "Int32Type">>,
      <<<<"l", "o", "n", "g">>, "Int64Type">>,
      <<<<"f", "l", "o", "a", "t">>, "Float32Type">>,
      <<<<"d", "o", "u", "b", "l", "e">>, "Float64Type">>,
      <<<<"d", "a", "t", "e">>, "DateType">>,
      <<<<"t", "i", "m", "e">>, "TimeType">>,
      <<<<"t", "i", "m", "e", "s", "t", "a", "m", "p">>, "TimestampType">>,
      <<<<"t", "i", "m", "e", "s", "t", "a", "m", "p", "t", "z">>, "TimestampTzType">>,
      <<<<"t", "i", "m", "e", "s", "t", "a", "m", "p", "_", "n", "s">>, "TimestampNsType">>,
      <<<<"t", "i", "m", "e", "s", "t", "a", "m", "p", "t", "z", "_", "n", "s">>, "TimestampTzNsType">>,
      <<<<"s", "t", "r", "i", "n", "g">>, "StringType">>,
      <<<<"u", "u", "i", "d">>, "UUIDType">>,
      <<<<"b", "i", "n", "a", "r", "y">>, "BinaryType">>>>

PrimitiveNames == {PrimitiveCases[i][1] : i \in 1..Len(PrimitiveCases)}

\* the body of stringToType, with the submatches of decimalRegex and fixedRegex
StringToTypeOfMatches(s, decimalMatches, fixedMatches) ==
    IF s \in PrimitiveNames
    THEN LET i == CHOOSE j \in 1..Len(PrimitiveCases) : PrimitiveCases[j][1] = s
         IN  [err |-> FALSE, type |-> PrimitiveType(PrimitiveCases[i][2])]
    ELSE IF decimalMatches.matched
    THEN [err |-> FALSE,
          type |-> DecimalTypeOf(Atoi(decimalMatches.groups[1]),
                                 Atoi(decimalMatches.groups[2]))]
    ELSE IF fixedMatches.matched
    THEN [err |-> FALSE, type |-> FixedTypeOf(Atoi(fixedMatches.groups[1]))]
    ELSE [err |-> TRUE, type |-> NoType]

\* stringToType (table_schema.go)
stringToType(s) == StringToTypeOfMatches(s, DecimalRegexMatch(s), FixedRegexMatch(s))

\* the names iceberg-go gives its primitive types
TypeNames ==
    <<<<"BooleanType", <<"b", "o", "o", "l", "e", "a", "n">>>>,
      <<"Int32Type", <<"i", "n", "t">>>>,
      <<"Int64Type", <<"l", "o", "n", "g">>>>,
      <<"Float32Type", <<"f", "l", "o", "a", "t">>>>,
      <<"Float64Type", <<"d", "o", "u", "b", "l", "e">>>>,
      <<"DateType", <<"d", "a", "t", "e">>>>,
      <<"TimeType", <<"t", "i", "m", "e">>>>,
      <<"TimestampType", <<"t", "i", "m", "e", "s", "t", "a", "m", "p">>>>,
      <<"TimestampTzType", <<"t", "i", "m", "e", "s", "t", "a", "m", "p", "t", "z">>>>,
      <<"TimestampNsType", <<"t", "i", "m", "e", "s", "t", "a", "m", "p", "_", "n", "s">>>>,
      <<"TimestampTzNsType", <<"t", "i", "m", "e", "s", "t", "a", "m", "p", "t", "z", "_", "n", "s">>>>,
      <<"StringType", <<"s", "t", "r", "i", "n", "g">>>>,
      <<"UUIDType", <<"u", "u", "i", "d">>>>,
      <<"BinaryType", <<"b", "i", "n", "a", "r", "y">>>>>>

\* iceberg.Type.String(), with sep between the comma and the scale of a
\* decimal (iceberg-go writes one space)
TypeStringWith(t, sep) ==
    IF t.kind = "DecimalType"
    THEN StrDecimalOpen \o Itoa(t.precision) \o <<",">> \o sep \o Itoa(t.scale) \o <<")">>
    ELSE IF t.kind = "FixedType"
    THEN StrFixedBracket \o Itoa(t.len) \o <<"]">>
    ELSE LET i == CHOOSE j \in 1..Len(TypeNames) : TypeNames[j][1] = t.kind
         IN  TypeNames[i][2]

\* typeToString: t.String()
typeToString(t) == TypeStringWith(t, <<" ">>)

(***************************************************************************)
(* Terraform field values and Iceberg types (table_schema.go)              *)
(***************************************************************************)
StrList == <<"l", "i", "s", "t">>

StrMap == <<"m", "a", "p">>

StrStruct == <<"s", "t", "r", "u", "c", "t">>

\* the String() of a nested type written as one token: no parser of the
\* provider accepts a string that holds it
OpaqueTypeString(kind) == <<kind, "<", ">">>

NullDecimalProps == [null |-> TRUE, precision |-> 0, scale |-> 0]

NullFixedProps == [null |-> TRUE, length |-> 0]

NullListProps ==
    [null |-> TRUE, element_id |-> 0, element_type |-> <<>>, element_required |-> FALSE]

NullMapProps ==
    [null |-> TRUE, key_id |-> 0, key_type |-> <<>>, value_id |-> 0,
     value_type |-> <<>>, value_required |-> FALSE]

NullStructProps == [null |-> TRUE, fields |-> <<>>]

\* types.StringNull() and types.StringValue(s) of the doc attribute
DocValue(doc) == IF doc = "" THEN [null |-> TRUE, s |-> ""] ELSE [null |-> FALSE, s |-> doc]

OkType(t) == [err |-> "", type |-> t]

ErrType(msg) == [err |-> msg, type |-> NoType]

\* the (type, error) pair of a call of stringToType
TypeOrError(parsed) ==
    IF parsed.err THEN ErrType("unsupported type") ELSE OkType(parsed.type)

\* stringToType with the error it returns
StringToTypeResult(s) == TypeOrError(stringToType(s))

\* case "list" of terraformToIcebergType and terraformToIcebergTypeFromInner
ListTypeFromProps(listProps) ==
    IF listProps.null THEN ErrType("list_properties must be set for list type")
    ELSE LET elemType == StringToTypeResult(listProps.element_type)
         IN  IF elemType.err # "" THEN elemType
             ELSE OkType([kind |-> "ListType",
                          elementID |-> listProps.element_id,
                          element |-> elemType.type,
                          elementRequired |-> listProps.element_required])

\* case "map" of terraformToIcebergType and terraformToIcebergTypeFromInner
MapTypeFromProps(mapProps) ==
    IF mapProps.null THEN ErrType("map_properties must be set for map type")
    ELSE LET keyType == StringToTypeResult(mapProps.key_type)
             valueType == StringToTypeResult(mapProps.value_type)
         IN  IF keyType.err # "" THEN keyType
             ELSE IF valueType.err # "" THEN valueType
             ELSE OkType([kind |-> "MapType",
                          keyID |-> mapProps.key_id,
                          keyType |-> keyType.type,
                          valueID |-> mapProps.value_id,
                          valueType |-> valueType.type,
                          valueRequired |-> mapProps.value_required])

\* case "decimal"
DecimalTypeFromProps(decProps) ==
    IF decProps.null THEN ErrType("decimal_properties must be set for decimal type")
    ELSE OkType(DecimalTypeOf(decProps.precision, decProps.scale))

\* case "fixed"
FixedTypeFromProps(fixedProps) ==
    IF fixedProps.null THEN ErrType("fixed_properties must be set for fixed type")
    ELSE OkType(FixedTypeOf(fixedProps.length))

\* terraformToIcebergTypeFromInner (table_schema.go)
terraformToIcebergTypeFromInner(field) ==
    IF field.type = StrList THEN ListTypeFromProps(field.list_properties)
    ELSE IF field.type = StrMap THEN MapTypeFromProps(field.map_properties)
    ELSE IF field.type = StrStruct
    THEN ErrType("nested structs are not supported in this version")
    ELSE IF field.type = StrDecimal THEN DecimalTypeFromProps(field.decimal_properties)
    ELSE IF field.type = StrFixed THEN FixedTypeFromProps(field.fixed_properties)
    ELSE StringToTypeResult(field.type)

\* iceberg.NestedField built from a Terraform field and its converted type
NestedFieldOf(field, typ) ==
    [id |-> field.id, name |-> field.name, type |-> typ,
     required |-> field.required, doc |-> field.doc.s]

\* terraformToIcebergType (table_schema.go)
terraformToIcebergType(field) ==
    IF field.type = StrList THEN ListTypeFromProps(field.list_properties)
    ELSE IF field.type = StrMap THEN MapTypeFromProps(field.map_properties)
    ELSE IF field.type = StrStruct
    THEN IF field.struct_properties.null
         THEN ErrType("struct_properties must be set for struct type")
         ELSE LET innerFields == field.struct_properties.fields
                  typ == [i \in 1..Len(innerFields) |->
                             terraformToIcebergTypeFromInner(innerFields[i])]
                  failed == {i \in 1..Len(innerFields) : typ[i].err # ""}
              IN  IF failed # {}
                  THEN typ[CHOOSE i \in failed : \A j \in failed : i <= j]
                  ELSE OkType([kind |-> "StructType",
                               fields |-> [i \in 1..Len(innerFields) |->
                                   NestedFieldOf(innerFields[i], typ[i].type)]])
    ELSE IF field.type = StrDecimal THEN DecimalTypeFromProps(field.decimal_properties)
    ELSE IF field.type = StrFixed THEN FixedTypeFromProps(field.fixed_properties)
    ELSE StringToTypeResult(field.type)

\* t.String() of any type; a nested type is written as one opaque token
TypeString(t) ==
    IF t.kind \in {"ListType", "MapType", "StructType"} THEN OpaqueTypeString(t.kind)
    ELSE typeToString(t)

\* the decimal_properties, fixed_properties, list_properties and
\* map_properties the read path derives from a type
DecimalPropsOf(t) ==
    IF t.kind = "DecimalType"
    THEN [null |-> FALSE, precision |-> t.precision, scale |-> t.scale]
    ELSE NullDecimalProps

FixedPropsOf(t) ==
    IF t.kind = "FixedType" THEN [null |-> FALSE, length |-> t.len] ELSE NullFixedProps

ListPropsOf(t) ==
    IF t.kind = "ListType"
    THEN [null |-> FALSE, element_id |-> t.elementID,
          element_type |-> TypeString(t.element),
          element_required |-> t.elementRequired]
    ELSE NullListProps

MapPropsOf(t) ==
    IF t.kind = "MapType"
    THEN [null |-> FALSE, key_id |-> t.keyID, key_type |-> TypeString(t.keyType),
          value_id |-> t.valueID, value_type |-> TypeString(t.valueType),
          value_required |-> t.valueRequired]
    ELSE NullMapProps

\* the type attribute the read path of table_schema.go writes
FieldTypeString(t) ==
    IF t.kind = "DecimalType" THEN StrDecimal
    ELSE IF t.kind = "FixedType" THEN StrFixed
    ELSE IF t.kind = "ListType" THEN StrList
    ELSE IF t.kind = "MapType" THEN StrMap
    ELSE IF t.kind = "StructType" THEN StrStruct
    ELSE TypeString(t)

OkField(v) == [err |-> "", value |-> v]

ErrField(msg) == [err |-> msg, value |-> [type |-> <<>>]]

\* icebergToTerraformInnerField (table_schema.go)
icebergToTerraformInnerField(field) ==
    IF field.type.kind = "StructType"
    THEN ErrField("nested structs are not supported in this version")
    ELSE OkField([id |-> field.id,
                  name |-> field.name,
                  type |-> FieldTypeString(field.type),
                  required |-> field.required,
                  doc |-> DocValue(field.doc),
                  decimal_properties |-> DecimalPropsOf(field.type),
                  fixed_properties |-> FixedPropsOf(field.type),
                  list_properties |-> ListPropsOf(field.type),
                  map_properties |-> MapPropsOf(field.type)])

\* icebergToTerraformField (table_schema.go)
icebergToTerraformField(field) ==
    LET t == field.type
        nested == IF t.kind = "StructType"
                  THEN [i \in 1..Len(t.fields) |-> icebergToTerraformInnerField(t.fields[i])]
                  ELSE <<>>
        failed == {i \in 1..Len(nested) : nested[i].err # ""}
    IN  IF failed # {}
        THEN ErrField(nested[CHOOSE i \in failed : \A j \in failed : i <= j].err)
        ELSE OkField([id |-> field.id,
                      name |-> field.name,
                      type |-> FieldTypeString(t),
                      required |-> field.required,
                      doc |-> DocValue(field.doc),
                      decimal_properties |-> DecimalPropsOf(t),
                      fixed_properties |-> FixedPropsOf(t),
                      list_properties |-> ListPropsOf(t),
                      map_properties |-> MapPropsOf(t),
                      struct_properties |->
                          IF t.kind = "StructType"
                          THEN [null |-> FALSE,
                                fields |-> [i \in 1..Len(nested) |-> nested[i].value]]
                          ELSE NullStructProps])

(***************************************************************************)
(* The three-level variant of the schema conversion                        *)
(***************************************************************************)
\* terraformToIcebergType(typeStr, listProps, mapProps, structProps)
terraformToIcebergTypeLeveled(typeStr, listProps, mapProps) ==
    IF typeStr = StrList THEN ListTypeFromProps(listProps)
    ELSE IF typeStr = StrMap THEN MapTypeFromProps(mapProps)
    ELSE IF typeStr = StrStruct THEN ErrType("struct type handled by caller")
    ELSE StringToTypeResult(typeStr)

\* convertIcebergTableSchemaLeafField
convertIcebergTableSchemaLeafField(field) ==
    IF field.type = StrStruct THEN ErrType("maximum nesting depth reached (3 levels)")
    ELSE terraformToIcebergTypeLeveled(field.type, field.list_properties,
                                       field.map_properties)

\* icebergToTerraformFieldCommon
icebergToTerraformFieldCommon(field) ==
    [typeStr |-> IF field.type.kind = "ListType" THEN StrList
                 ELSE IF field.type.kind = "MapType" THEN StrMap
                 ELSE TypeString(field.type),
     listProps |-> ListPropsOf(field.type),
     mapProps |-> MapPropsOf(field.type)]

\* (mutation of icebergToTerraformLeafField: a struct at the leaf level is
\* read as a field without its fields)
icebergToTerraformLeafFieldNoStop(field) ==
    LET common == icebergToTerraformFieldCommon(field)
    IN  OkField([id |-> field.id,
                 name |-> field.name,
                 type |-> common.typeStr,
                 required |-> field.required,
                 doc |-> DocValue(field.doc),
                 list_properties |-> common.listProps,
                 map_properties |-> common.mapProps])

\* icebergToTerraformLeafField
icebergToTerraformLeafField(field) ==
    LET common == icebergToTerraformFieldCommon(field)
    IN  IF field.type.kind = "StructType"
        THEN ErrField("maximum nesting depth reached (3 levels) during read")
        ELSE OkField([id |-> field.id,
                      name |-> field.name,
                      type |-> common.typeStr,
                      required |-> field.required,
                      doc |-> DocValue(field.doc),
                      list_properties |-> common.listProps,
                      map_properties |-> common.mapProps])

(***************************************************************************)
(* The three-level variant: fields, inner fields and leaf fields           *)
(***************************************************************************)
\* the loop over the fields of a struct: the error of the first field that
\* fails, or the struct of the converted fields
NestedFieldsOrError(fields, typ) ==
    IF {i \in 1..Len(fields) : typ[i].err # ""} # {}
    THEN typ[CHOOSE i \in 1..Len(fields) :
                 /\ typ[i].err # ""
                 /\ \A j \in 1..(i - 1) : typ[j].err = ""]
    ELSE OkType(StructTypeOf([i \in 1..Len(fields) |-> NestedFieldOf(fields[i], typ[i].type)]))

\* convertIcebergTableSchemaInnerField
convertIcebergTableSchemaInnerField(field) ==
    IF field.type = StrStruct
    THEN IF field.struct_properties.null
         THEN ErrType("struct_properties must be set for struct type")
         ELSE NestedFieldsOrError(field.struct_properties.fields,
                  [i \in 1..Len(field.struct_properties.fields) |->
                      convertIcebergTableSchemaLeafField(field.struct_properties.fields[i])])
    ELSE terraformToIcebergTypeLeveled(field.type, field.list_properties,
                                       field.map_properties)

\* convertIcebergTableSchemaField
convertIcebergTableSchemaField(field) ==
    IF field.type = StrStruct
    THEN IF field.struct_properties.null
         THEN ErrType("struct_properties must be set for struct type")
         ELSE NestedFieldsOrError(field.struct_properties.fields,
                  [i \in 1..Len(field.struct_properties.fields) |->
                      convertIcebergTableSchemaInnerField(field.struct_properties.fields[i])])
    ELSE terraformToIcebergTypeLeveled(field.type, field.list_properties,
                                       field.map_properties)

\* the loop over t.Fields(): the error of the first field that fails, or
\* the field with type "struct" and the converted fields as struct_properties
StructValueOrError(field, common, nested) ==
    IF {i \in 1..Len(nested) : nested[i].err # ""} # {}
    THEN ErrField(nested[CHOOSE i \in 1..Len(nested) :
                             /\ nested[i].err # ""
                             /\ \A j \in 1..(i - 1) : nested[j].err = ""].err)
    ELSE OkField([id |-> field.id,
                  name |-> field.name,
                  type |-> IF field.type.kind = "StructType" THEN StrStruct
                           ELSE common.typeStr,
                  required |-> field.required,
                  doc |-> DocValue(field.doc),
                  list_properties |-> common.listProps,
                  map_properties |-> common.mapProps,
                  struct_properties |->
                      IF field.type.kind = "StructType"
                      THEN [null |-> FALSE,
                            fields |-> [i \in 1..Len(nested) |-> nested[i].value]]
                      ELSE NullStructProps])

\* icebergToTerraformInnerField of the three-level variant
icebergToTerraformInnerFieldLeveled(field) ==
    StructValueOrError(field, icebergToTerraformFieldCommon(field),
        IF field.type.kind = "StructType"
        THEN [i \in 1..Len(field.type.fields) |->
                 icebergToTerraformLeafField(field.type.fields[i])]
        ELSE <<>>)

\* icebergToTerraformField of the three-level variant
icebergToTerraformFieldLeveled(field) ==
    StructValueOrError(field, icebergToTerraformFieldCommon(field),
        IF field.type.kind = "StructType"
        THEN [i \in 1..Len(field.type.fields) |->
                 icebergToTerraformInnerFieldLeveled(field.type.fields[i])]
        ELSE <<>>)

(***************************************************************************)
(* The JSON variant of the schema conversion: the type of a field          *)
(***************************************************************************)
\* marshalFieldJSON: a list, map or struct is written as an object, any other
\* type as the string the user wrote
MarshalFieldType(typeStr) ==
    [string |-> typeStr \notin {StrList, StrMap, StrStruct}, text |-> typeStr]

\* strings.ReplaceAll(s, " ", "")
RemoveSpaces(s) == SelectSeq(s, LAMBDA c : c # " ")

\* the lines of unmarshalFieldJSON that set *typeStr
UnmarshalFieldType(json) == IF json.string THEN RemoveSpaces(json.text) ELSE json.text

\* The type iceberg-go reads from a JSON type string: a primitive name,
\* decimal(p,s) with optional white space around both numbers, or fixed[n]
SchemaTypeFromJSON(text) ==
    LET squeezed == SelectSeq(text, LAMBDA c : c \notin SpaceSet)
        fixed == BracketedNumberMatch(text, StrFixedBracket, "]")
    IN  IF text \in PrimitiveNames THEN StringToTypeResult(text)
        ELSE IF DecimalRegexMatch(squeezed).matched /\ HasPrefix(text, StrDecimalOpen)
        THEN StringToTypeResult(squeezed)
        ELSE IF fixed.matched THEN OkType(FixedTypeOf(Atoi(fixed.groups[1])))
        ELSE ErrType("invalid type string")

\* ToIceberg: the type iceberg-go holds for the JSON type value of a field
SchemaToIceberg(json) ==
    IF json.string THEN SchemaTypeFromJSON(json.text)
    ELSE OkType([PrimitiveType("nested") EXCEPT !.kind = "StructType"])

\* FromIceberg: the JSON type value of a decimal, fixed or primitive type,
\* the decimal written with sep between the comma and the scale
SchemaFromIceberg(t, sep) == [string |-> TRUE, text |-> TypeStringWith(t, sep)]

(***************************************************************************)
(* Declared field types                                                    *)
(***************************************************************************)
DecimalText(p, sc, sep) ==
    StrDecimalOpen \o Itoa(p) \o <<",">> \o sep \o Itoa(sc) \o <<")">>

FixedBracketText(n) == StrFixedBracket \o Itoa(n) \o <<"]">>

FixedParenText(n) == StrFixedOpen \o Itoa(n) \o <<")">>

Declared(form, p, sc, n, text) ==
    [form |-> form, p |-> p, sc |-> sc, n |-> n, text |-> text]

\* what a user can write for the type of a field
DeclaredTypes ==
    {Declared("primitive", 0, 0, 0, name) : name \in PrimitiveNames}
    \cup {Declared("decimal", p, sc, 0, DecimalText(p, sc, <<>>)) : p \in Nums, sc \in Nums}
    \cup {Declared("decimal_spaced", p, sc, 0, DecimalText(p, sc, <<" ">>)) :
              p \in Nums, sc \in Nums}
    \cup {Declared("fixed_bracket", 0, 0, n, FixedBracketText(n)) : n \in Nums}
    \cup {Declared("fixed_paren", 0, 0, n, FixedParenText(n)) : n \in Nums}
    \cup {Declared("decimal_properties", p, sc, 0, StrDecimal) : p \in Nums, sc \in Nums}
    \cup {Declared("fixed_properties", 0, 0, n, StrFixed) : n \in Nums}

\* the separators a catalog may write between the comma and the scale
Separators == {<<>>, <<" ">>, <<" ", " ">>}

Variants == {"table_schema", "leveled", "json"}

\* the Terraform field of table_schema.go for a declared type
DeclaredField(d) ==
    [id |-> 1, name |-> "f", type |-> d.text, required |-> TRUE,
     doc |-> DocValue(""),
     decimal_properties |->
         IF d.form = "decimal_properties"
         THEN [null |-> FALSE, precision |-> d.p, scale |-> d.sc]
         ELSE NullDecimalProps,
     fixed_properties |->
         IF d.form = "fixed_properties"
         THEN [null |-> FALSE, length |-> d.n]
         ELSE NullFixedProps,
     list_properties |-> NullListProps,
     map_properties |-> NullMapProps,
     struct_properties |-> NullStructProps]

\* the type the catalog holds after the field was written, in each variant
\* of the conversion
CreatedType(variant, field) ==
    IF variant = "table_schema" THEN terraformToIcebergType(field)
    ELSE IF variant = "leveled" THEN convertIcebergTableSchemaLeafField(field)
    ELSE SchemaToIceberg(MarshalFieldType(field.type))

\* the error and the type attribute of a converted field
TypeAttributeOf(back) == [err |-> back.err, type |-> back.value.type]

\* the type attribute of the state read from the catalog's field, in each
\* variant of the conversion; sep is the white space the catalog writes
ReadTypeAttribute(variant, nested, sep) ==
    IF variant = "table_schema" THEN TypeAttributeOf(icebergToTerraformField(nested))
    ELSE IF variant = "leveled" THEN TypeAttributeOf(icebergToTerraformLeafField(nested))
    ELSE [err |-> "", type |-> UnmarshalFieldType(SchemaFromIceberg(nested.type, sep))]

TyNoParse ==
    [done |-> FALSE, input |-> Declared("none", 0, 0, 0, <<>>),
     result |-> [err |-> FALSE, type |-> NoType]]

TyNoRound ==
    [stage |-> "declared", variant |-> "none", declared |-> Declared("none", 0, 0, 0, <<>>),
     catalog |-> NoType, err |-> "", type |-> <<>>]

TyInit ==
    /\ tyParse = TyNoParse
    /\ tyRound = TyNoRound

\* the argument of a call of stringToType
TyInitParse ==
    /\ tyParse \in {[TyNoParse EXCEPT !.input = d] : d \in DeclaredTypes}
    /\ tyRound = TyNoRound

\* the declared type of the field of a table about to be created
TyInitRound ==
    /\ tyParse = TyNoParse
    /\ tyRound \in {[TyNoRound EXCEPT !.variant = v, !.declared = d] :
                        v \in Variants, d \in DeclaredTypes}

\* a call of stringToType
ParseTypeString ==
    /\ ~tyParse.done
    /\ tyParse' = [tyParse EXCEPT !.done = TRUE,
                                  !.result = stringToType(tyParse.input.text)]
    /\ UNCHANGED tyRound
    /\ UNCHANGED <<nsVars, prVars, hdrVars, rtVars, dpVars, pvVars>>

\* the table is created: the declared field is converted to its Iceberg type
CreateField ==
    /\ tyRound.stage = "declared"
    /\ tyRound.variant # "none"
    /\ tyRound' = [tyRound EXCEPT
           !.stage = "created",
           !.catalog = CreatedType(tyRound.variant, DeclaredField(tyRound.declared)).type,
           !.err = CreatedType(tyRound.variant, DeclaredField(tyRound.declared)).err]
    /\ UNCHANGED tyParse
    /\ UNCHANGED <<nsVars, prVars, hdrVars, rtVars, dpVars, pvVars>>

\* the table is read back: the catalog's field is converted to the state
ReadField ==
    \E sep \in Separators :
        /\ tyRound.stage = "created"
        /\ tyRound.err = ""
        /\ tyRound' = [tyRound EXCEPT
               !.stage = "read",
               !.err = ReadTypeAttribute(tyRound.variant,
                           NestedFieldOf(DeclaredField(tyRound.declared), tyRound.catalog),
                           sep).err,
               !.type = ReadTypeAttribute(tyRound.variant,
                           NestedFieldOf(DeclaredField(tyRound.declared), tyRound.catalog),
                           sep).type]
        /\ UNCHANGED tyParse
        /\ UNCHANGED <<nsVars, prVars, hdrVars, rtVars, dpVars, pvVars>>

ConvertNext ==
    \/ CreateField
    \/ ReadField

(***************************************************************************)
(* Properties of the type strings                                          *)
(***************************************************************************)
\* C9: stringToType accepts 'decimal(p,s)' and 'fixed[n]' and returns the
\* decimal type of precision p and scale s, and the fixed type of length n.
TyParameterizedFormsParsed ==
    tyParse.done =>
        /\ tyParse.input.form = "decimal" =>
              tyParse.result =
                  [err |-> FALSE, type |-> DecimalTypeOf(tyParse.input.p, tyParse.input.sc)]
        /\ tyParse.input.form = "fixed_bracket" =>
              tyParse.result = [err |-> FALSE, type |-> FixedTypeOf(tyParse.input.n)]

\* C10: a field declared 'decimal(p,s)' or 'fixed[n]' is created and has
\* exactly that string as its type in the state read back from the catalog,
\* whatever white space the catalog writes inside the decimal.
TyDeclaredTypeStringKept ==
    (tyRound.stage # "declared" /\ tyRound.declared.form \in {"decimal", "fixed_bracket"}) =>
        /\ tyRound.err = ""
        /\ tyRound.stage = "read" => tyRound.type = tyRound.declared.text

(***************************************************************************)
(* Round trip of a field of the catalog's schema (table_schema.go)         *)
(***************************************************************************)
\* the precisions, scales and lengths of the fields of the catalog: one
\* digit, two digits, and the largest number of the model
RtNums == {1, 10, MaxNum}

\* primitive, decimal and fixed types
RtLeafTypes ==
    {PrimitiveType(PrimitiveCases[i][2]) : i \in 1..Len(PrimitiveCases)}
    \cup {DecimalTypeOf(p, sc) : p \in RtNums, sc \in RtNums}
    \cup {FixedTypeOf(n) : n \in RtNums}

\* one type of each of the three kinds
RtSampleTypes == {PrimitiveType("StringType"), DecimalTypeOf(10, 1), FixedTypeOf(MaxNum)}

RtListTypes == {ListTypeOf(2, e, r) : e \in RtLeafTypes, r \in BOOLEAN}

RtMapTypes ==
    {MapTypeOf(2, k, 3, v, r) : k \in RtLeafTypes, v \in RtSampleTypes, r \in BOOLEAN}
    \cup {MapTypeOf(2, k, 3, v, r) : k \in RtSampleTypes, v \in RtLeafTypes, r \in BOOLEAN}

\* the types of the fields of a struct
RtInnerTypes ==
    RtSampleTypes
    \cup {ListTypeOf(4, e, TRUE) : e \in RtSampleTypes}
    \cup {MapTypeOf(4, PrimitiveType("StringType"), 5, v, FALSE) : v \in RtSampleTypes}

RtInnerFields(id, name) ==
    {NestedField(id, name, t, r, doc) :
        t \in RtInnerTypes, r \in BOOLEAN, doc \in {"", "d"}}

RtStructTypes ==
    {StructTypeOf(<<f>>) : f \in RtInnerFields(2, "a")}
    \cup {StructTypeOf(<<f, g>>) : f \in RtInnerFields(2, "a"), g \in RtInnerFields(3, "b")}

\* the fields a catalog can hold, within the types the conversion is for
RtFields ==
    {NestedField(1, "f", t, r, "") :
        t \in RtLeafTypes \cup RtListTypes \cup RtMapTypes \cup RtStructTypes,
        r \in BOOLEAN}

RtNoField ==
    [stage |-> "none", field |-> NestedField(0, "", NoType, FALSE, ""),
     tf |-> [type |-> <<>>], err |-> "", back |-> NoType]

RtInit == rtField = RtNoField

\* a field of the schema of a table of the catalog
RtInitField == rtField \in {[RtNoField EXCEPT !.stage = "iceberg", !.field = f] : f \in RtFields}

\* the field is read: icebergToTerraformField
ConvertToTerraform ==
    /\ rtField.stage = "iceberg"
    /\ rtField' = [rtField EXCEPT
           !.stage = "terraform",
           !.tf = icebergToTerraformField(rtField.field).value,
           !.err = icebergToTerraformField(rtField.field).err]
    /\ UNCHANGED <<nsVars, prVars, hdrVars, tyVars, dpVars, pvVars>>

\* the value read is written back: terraformToIcebergType
ConvertToIceberg ==
    /\ rtField.stage = "terraform"
    /\ rtField.err = ""
    /\ rtField' = [rtField EXCEPT
           !.stage = "iceberg_again",
           !.back = terraformToIcebergType(rtField.tf).type,
           !.err = terraformToIcebergType(rtField.tf).err]
    /\ UNCHANGED <<nsVars, prVars, hdrVars, tyVars, dpVars, pvVars>>

RoundTripNext ==
    \/ ConvertToTerraform
    \/ ConvertToIceberg

(***************************************************************************)
(* Properties of the round trip                                            *)
(***************************************************************************)
\* C11: for a field whose type is a primitive, a decimal, a fixed, a list or
\* map of such types or a struct of fields of such types,
\* icebergToTerraformField and then terraformToIcebergType return no error
\* and a type equal to the type of the field.
RtRoundTripReturnsOriginal ==
    /\ rtField.stage \in {"terraform", "iceberg_again"} => rtField.err = ""
    /\ rtField.stage = "iceberg_again" => rtField.back = rtField.field.type

(***************************************************************************)
(* Fields with nested structs                                              *)
(***************************************************************************)
\* the deepest nesting of structs in the schemas of the catalog
MaxDepth == 4

StrInt == <<"i", "n", "t">>

\* the levels of fields each variant has a Terraform type for
Levels(variant) == IF variant = "table_schema" THEN 2 ELSE 3

\* a Terraform field; an inner field of table_schema.go and a leaf field of
\* the three-level variant have no struct_properties attribute, which is
\* written here as the null object
DpTfField(id, name, typeStr, structProps) ==
    [id |-> id, name |-> name, type |-> typeStr, required |-> TRUE,
     doc |-> DocValue(""),
     decimal_properties |-> NullDecimalProps,
     fixed_properties |-> NullFixedProps,
     list_properties |-> NullListProps,
     map_properties |-> NullMapProps,
     struct_properties |-> structProps]

DpTfStruct(id, name, fields) ==
    DpTfField(id, name, StrStruct, [null |-> FALSE, fields |-> fields])

\* the fields a configuration can declare with d levels of fields: at the
\* last level a field can only name the type struct
RECURSIVE DpTfFields(_)
DpTfFields(d) ==
    IF d = 1
    THEN {DpTfField(2, "a", StrInt, NullStructProps),
          DpTfField(2, "a", StrStruct, NullStructProps)}
    ELSE {DpTfField(2, "a", StrInt, NullStructProps)}
         \cup {DpTfStruct(2, "a", <<f>>) : f \in DpTfFields(d - 1)}
         \cup {DpTfStruct(2, "a", <<f, DpTfField(3, "x", StrInt, NullStructProps)>>) :
                   f \in DpTfFields(d - 1)}
         \cup {DpTfStruct(2, "a", <<DpTfField(3, "x", StrInt, NullStructProps), f>>) :
                   f \in DpTfFields(d - 1)}

\* the fields of the catalog with structs nested up to d deep
RECURSIVE DpIcebergFields(_)
DpIcebergFields(d) ==
    IF d = 0
    THEN {NestedField(2, "a", PrimitiveType("Int32Type"), TRUE, "")}
    ELSE DpIcebergFields(d - 1)
         \cup {NestedField(2, "a", StructTypeOf(<<f>>), TRUE, "") :
                   f \in DpIcebergFields(d - 1)}
         \cup {NestedField(2, "a",
                    StructTypeOf(<<f, NestedField(3, "x", PrimitiveType("Int32Type"), TRUE, "")>>),
                    TRUE, "") : f \in DpIcebergFields(d - 1)}
         \cup {NestedField(2, "a",
                    StructTypeOf(<<NestedField(3, "x", PrimitiveType("Int32Type"), TRUE, ""), f>>),
                    TRUE, "") : f \in DpIcebergFields(d - 1)}

\* a declared field names the type struct at the last of d levels of fields
RECURSIVE TfStructAtLevel(_, _)
TfStructAtLevel(f, d) ==
    /\ f.type = StrStruct
    /\ \/ d = 1
       \/ /\ ~f.struct_properties.null
          /\ \E i \in 1..Len(f.struct_properties.fields) :
                 TfStructAtLevel(f.struct_properties.fields[i], d - 1)

\* the depth of the structs of an Iceberg type
RECURSIVE StructDepth(_)
StructDepth(t) ==
    IF t.kind # "StructType" THEN 0
    ELSE 1 + (CHOOSE m \in 0..MaxDepth :
                  /\ \A i \in 1..Len(t.fields) : StructDepth(t.fields[i].type) <= m
                  /\ \E i \in 1..Len(t.fields) : StructDepth(t.fields[i].type) = m)

\* the number of fields of an Iceberg type, at all levels
RECURSIVE FieldCount(_)
FieldCount(t) ==
    IF t.kind # "StructType" THEN 0
    ELSE LET n[i \in 0..Len(t.fields)] ==
                 IF i = 0 THEN 0 ELSE n[i - 1] + 1 + FieldCount(t.fields[i].type)
         IN  n[Len(t.fields)]

\* the number of fields of a Terraform field, at all levels
RECURSIVE TfFieldCount(_)
TfFieldCount(f) ==
    IF "struct_properties" \notin DOMAIN f THEN 0
    ELSE IF f.struct_properties.null THEN 0
    ELSE LET fs == f.struct_properties.fields
             n[i \in 0..Len(fs)] ==
                 IF i = 0 THEN 0 ELSE n[i - 1] + 1 + TfFieldCount(fs[i])
         IN  n[Len(fs)]

DpIdle ==
    [done |-> FALSE, variant |-> "none", direction |-> "none",
     tf |-> DpTfField(0, "", <<>>, NullStructProps),
     field |-> NestedField(0, "", NoType, FALSE, ""),
     err |-> "", fields |-> 0]

DpInit == dpCall = DpIdle

\* a declared field about to be written, or a field of the catalog about to
\* be read, by either variant
DpInitCall ==
    dpCall \in
        {[DpIdle EXCEPT !.variant = v, !.direction = "write", !.tf = f] :
            v \in {"table_schema"}, f \in DpTfFields(Levels("table_schema"))}
        \cup {[DpIdle EXCEPT !.variant = v, !.direction = "write", !.tf = f] :
            v \in {"leveled"}, f \in DpTfFields(Levels("leveled"))}
        \cup {[DpIdle EXCEPT !.variant = v, !.direction = "read", !.field = f] :
            v \in {"table_schema", "leveled"}, f \in DpIcebergFields(MaxDepth)}

\* the error and the number of fields of a converted type
WrittenType(typ) ==
    [err |-> typ.err, fields |-> IF typ.err = "" THEN FieldCount(typ.type) ELSE 0]

\* the error and the number of fields of a converted field
ReadValue(back) ==
    [err |-> back.err, fields |-> IF back.err = "" THEN TfFieldCount(back.value) ELSE 0]

\* the declared field is converted to its Iceberg type
WriteNestedField ==
    /\ ~dpCall.done
    /\ dpCall.direction = "write"
    /\ dpCall' = [dpCall EXCEPT
           !.done = TRUE,
           !.err = WrittenType(IF dpCall.variant = "table_schema"
                               THEN terraformToIcebergType(dpCall.tf)
                               ELSE convertIcebergTableSchemaField(dpCall.tf)).err,
           !.fields = WrittenType(IF dpCall.variant = "table_schema"
                                  THEN terraformToIcebergType(dpCall.tf)
                                  ELSE convertIcebergTableSchemaField(dpCall.tf)).fields]
    /\ UNCHANGED <<nsVars, prVars, hdrVars, tyVars, rtVars, pvVars>>

\* the field of the catalog is converted to its Terraform value
ReadNestedField ==
    /\ ~dpCall.done
    /\ dpCall.direction = "read"
    /\ dpCall' = [dpCall EXCEPT
           !.done = TRUE,
           !.err = ReadValue(IF dpCall.variant = "table_schema"
                             THEN icebergToTerraformField(dpCall.field)
                             ELSE icebergToTerraformFieldLeveled(dpCall.field)).err,
           !.fields = ReadValue(IF dpCall.variant = "table_schema"
                                THEN icebergToTerraformField(dpCall.field)
                                ELSE icebergToTerraformFieldLeveled(dpCall.field)).fields]
    /\ UNCHANGED <<nsVars, prVars, hdrVars, tyVars, rtVars, pvVars>>

DepthNext ==
    \/ WriteNestedField
    \/ ReadNestedField

(***************************************************************************)
(* Properties of the conversion of nested structs                          *)
(***************************************************************************)
\* the input of the call nests structs deeper than the variant has levels
DpTooDeep ==
    IF dpCall.direction = "write"
    THEN TfStructAtLevel(dpCall.tf, Levels(dpCall.variant))
    ELSE StructDepth(dpCall.field.type) >= Levels(dpCall.variant)

\* the fields of the input of the call, at all levels
DpInputFields ==
    IF dpCall.direction = "write" THEN TfFieldCount(dpCall.tf)
    ELSE FieldCount(dpCall.field.type)

\* the messages of the code
DpDepthError ==
    IF dpCall.variant = "table_schema"
    THEN "nested structs are not supported in this version"
    ELSE IF dpCall.direction = "write"
    THEN "maximum nesting depth reached (3 levels)"
    ELSE "maximum nesting depth reached (3 levels) during read"

\* the messages as the claim quotes them
DpQuotedError ==
    IF dpCall.variant = "table_schema"
    THEN "nested structs are not supported in this version"
    ELSE "maximum nesting depth reached (3 levels)"

\* C12 (as amended): a field that nests structs deeper than the variant
\* supports is rejected in both directions and nothing is returned for it; a
\* field within the depth is converted with all its fields. table_schema.go
\* answers 'nested structs are not supported in this version'; the
\* three-level variant answers 'maximum nesting depth reached (3 levels)' on
\* write and 'maximum nesting depth reached (3 levels) during read' on read.
DpDeepStructRejected ==
    dpCall.done =>
        IF DpTooDeep
        THEN dpCall.err = DpDepthError /\ dpCall.fields = 0
        ELSE dpCall.err = "" /\ dpCall.fields = DpInputFields

\* the three-level variant read a field of the catalog whose structs nest
\* deeper than three levels, and refused it
DpLeafStructRefusedOnRead ==
    /\ dpCall.done
    /\ dpCall.variant = "leveled"
    /\ dpCall.direction = "read"
    /\ StructDepth(dpCall.field.type) > Levels("leveled")
    /\ dpCall.err # ""

\* C12 (as stated): the three-level variant answers 'maximum nesting depth
\* reached (3 levels)' on write and on read alike.
DpDeepStructRejectedAsQuoted ==
    (dpCall.done /\ DpTooDeep) => dpCall.err = DpQuotedError

(***************************************************************************)
(* The provider's Configure and the catalog of a resource.                 *)
(*                                                                         *)
(* A Terraform string is [null, unknown, value], ValueString() of a null   *)
(* or unknown string being "".  The provider is one object: the pointer    *)
(* Configure publishes as ResourceData and DataSourceData is the pointer   *)
(* the resource's Configure keeps, so a published provider is a flag and   *)
(* the resource reads pvProvider.  Terraform configures a provider once;   *)
(* it makes and configures a resource for every operation, before or       *)
(* after the provider was configured, with the data published so far.      *)
(***************************************************************************)
PvString(v) == [null |-> FALSE, unknown |-> FALSE, value |-> v]

PvNullString == [null |-> TRUE, unknown |-> FALSE, value |-> ""]

PvUnknownString == [null |-> FALSE, unknown |-> TRUE, value |-> ""]

PvIsSet(v) == ~v.null /\ ~v.unknown

\* catalog_uri is Required: it is never null, and unknown while planning
PvCatalogURIs == {PvUnknownString, PvString("http://catalog:8181")}

PvTypes ==
    {PvNullString, PvUnknownString, PvString("rest"), PvString("REST"),
     PvString("glue"), PvString("")}

PvTokens == {PvNullString, PvUnknownString, PvString("secret")}

PvWarehouses == {PvNullString, PvUnknownString, PvString("wh")}

PvNoHeaders == [k \in {} |-> ""]

\* a headers attribute: null, unknown, a map of strings, and a map with an
\* unknown element, which ElementsAs cannot put in a map[string]string
PvHeaders ==
    {[null |-> TRUE, unknown |-> FALSE, elems |-> PvNoHeaders],
     [null |-> FALSE, unknown |-> TRUE, elems |-> PvNoHeaders],
     [null |-> FALSE, unknown |-> FALSE,
      elems |-> [k \in {"X-Org"} |-> PvString("acme")]],
     [null |-> FALSE, unknown |-> FALSE,
      elems |-> [k \in {"X-Org"} |-> PvUnknownString]]}

\* the diagnostics of req.Config.Get
PvGetDiags == {{}, {"Value Conversion Error"}}

PvConfigs ==
    [catalog_uri : PvCatalogURIs, type : PvTypes, token : PvTokens,
     warehouse : PvWarehouses, headers : PvHeaders]

\* &icebergProvider{}
PvNewProvider ==
    [catalogURI |-> "", catalogType |-> "", token |-> "", warehouse |-> "",
     headers |-> PvNoHeaders]

PvNilCatalog == [nil |-> TRUE, name |-> "", uri |-> ""]

\* &icebergNamespaceResource{}, not made yet
PvNoResource ==
    [made |-> FALSE, provider |-> FALSE, catalog |-> PvNilCatalog,
     diags |-> {}]

UnsupportedCatalogType == "Unsupported Catalog Type"

ProviderNotConfigured == "Provider not configured"

FailedToCreateCatalog == "Failed to create catalog"

\* the mutant of SupportedCatalogType: every catalog type passes
SupportedCatalogTypeAny(catalogType) == TRUE

\* Configure, "if p.catalogType != "rest"" negated
SupportedCatalogType(catalogType) == catalogType = "rest"

\* data.Headers.ElementsAs(ctx, &headers, false)
HeadersElementsAs(headers) ==
    IF \E k \in DOMAIN headers.elems : ~PvIsSet(headers.elems[k])
    THEN [diags |-> {"Value Conversion Error"}, headers |-> PvNoHeaders]
    ELSE [diags |-> {},
          headers |-> [k \in DOMAIN headers.elems |-> headers.elems[k].value]]

\* Configure up to the check of the catalog type
ConfigureCatalogType(p, data) ==
    [p EXCEPT !.catalogURI = data.catalog_uri.value,
              !.catalogType = IF PvIsSet(data.type) THEN data.type.value
                              ELSE "rest"]

\* Configure after the check of the catalog type
ConfigureRest(p, data) ==
    LET withToken == IF PvIsSet(data.token)
                     THEN [p EXCEPT !.token = data.token.value] ELSE p
        withWarehouse == IF PvIsSet(data.warehouse)
                         THEN [withToken EXCEPT
                                   !.warehouse = data.warehouse.value]
                         ELSE withToken
        converted == HeadersElementsAs(data.headers)
    IN IF ~PvIsSet(data.headers)
       THEN [p |-> withWarehouse, diags |-> {}, published |-> TRUE]
       ELSE IF converted.diags # {}
       THEN [p |-> withWarehouse, diags |-> converted.diags,
             published |-> FALSE]
       ELSE [p |-> [withWarehouse EXCEPT !.headers = converted.headers],
             diags |-> {}, published |-> TRUE]

\* icebergProvider.Configure: the provider after the call, the diagnostics
\* of the response and whether the provider was published
ProviderConfigure(p, data, getDiags) ==
    IF getDiags # {}
    THEN [p |-> p, diags |-> getDiags, published |-> FALSE]
    ELSE IF data.catalog_uri.unknown
    THEN [p |-> p, diags |-> {}, published |-> FALSE]
    ELSE IF ~SupportedCatalogType(ConfigureCatalogType(p, data).catalogType)
    THEN [p |-> ConfigureCatalogType(p, data),
          diags |-> {UnsupportedCatalogType}, published |-> FALSE]
    ELSE ConfigureRest(ConfigureCatalogType(p, data), data)

\* icebergProvider.NewCatalog: rest.NewCatalog is given p.catalogType as the
\* catalog's name and p.catalogURI, and fails when the catalog does not
\* answer
NewCatalog(p, answers) ==
    IF answers
    THEN [catalog |-> [nil |-> FALSE, name |-> p.catalogType,
                       uri |-> p.catalogURI],
          err |-> FALSE]
    ELSE [catalog |-> PvNilCatalog, err |-> TRUE]

PvInit ==
    /\ pvProvider = PvNewProvider
    /\ pvConfigure = [done |-> FALSE,
                      data |-> [catalog_uri |-> PvString("http://catalog:8181"),
                                type |-> PvNullString, token |-> PvNullString,
                                warehouse |-> PvNullString,
                                headers |-> [null |-> TRUE, unknown |-> FALSE,
                                             elems |-> PvNoHeaders]],
                      getDiags |-> {}, diags |-> {},
                      resourceData |-> FALSE, dataSourceData |-> FALSE]
    /\ pvResource = PvNoResource

\* a provider block of a Terraform configuration, not yet configured
PvInitConfig ==
    /\ pvProvider = PvNewProvider
    /\ \E data \in PvConfigs, getDiags \in PvGetDiags :
           pvConfigure = [done |-> FALSE, data |-> data,
                          getDiags |-> getDiags, diags |-> {},
                          resourceData |-> FALSE, dataSourceData |-> FALSE]
    /\ pvResource = PvNoResource

\* Terraform configures the provider
PvConfigure ==
    /\ ~pvConfigure.done
    /\ LET out == ProviderConfigure(pvProvider, pvConfigure.data,
                                    pvConfigure.getDiags)
       IN /\ pvProvider' = out.p
          /\ pvConfigure' = [pvConfigure EXCEPT
                                 !.done = TRUE,
                                 !.diags = out.diags,
                                 !.resourceData = out.published,
                                 !.dataSourceData = out.published]
    /\ UNCHANGED pvResource
    /\ UNCHANGED <<nsVars, prVars, hdrVars, tyVars, rtVars, dpVars>>

\* NewNamespaceResource and icebergNamespaceResource.Configure with the
\* ResourceData published so far as req.ProviderData
PvResourceConfigure ==
    /\ pvResource' = [made |-> TRUE,
                      provider |-> pvConfigure.resourceData,
                      catalog |-> PvNilCatalog, diags |-> {}]
    /\ UNCHANGED <<pvProvider, pvConfigure>>
    /\ UNCHANGED <<nsVars, prVars, hdrVars, tyVars, rtVars, dpVars>>

\* icebergNamespaceResource.ConfigureCatalog, the first step of Create,
\* Read, Update and Delete
PvConfigureCatalog ==
    /\ pvResource.made
    /\ \E answers \in BOOLEAN :
           pvResource' =
               IF ~pvResource.catalog.nil
               THEN pvResource
               ELSE IF ~pvResource.provider
               THEN [pvResource EXCEPT
                         !.diags = @ \cup {ProviderNotConfigured}]
               ELSE IF NewCatalog(pvProvider, answers).err
               THEN [pvResource EXCEPT
                         !.diags = @ \cup {FailedToCreateCatalog}]
               ELSE [pvResource EXCEPT
                         !.catalog = NewCatalog(pvProvider, answers).catalog]
    /\ UNCHANGED <<pvProvider, pvConfigure>>
    /\ UNCHANGED <<nsVars, prVars, hdrVars, tyVars, rtVars, dpVars>>

ProviderNext ==
    \/ PvConfigure
    \/ PvResourceConfigure
    \/ PvConfigureCatalog

\* the type attribute of the configuration is set to something else than
\* "rest"
PvTypeUnsupported ==
    PvIsSet(pvConfigure.data.type) /\ pvConfigure.data.type.value # "rest"

\* Configure read the configuration and found catalog_uri known, so that
\* it came to look at the type attribute
PvTypeLookedAt ==
    pvConfigure.getDiags = {} /\ ~pvConfigure.data.catalog_uri.unknown

\* C13: only the 'rest' catalog type is supported.  Once Configure has read
\* the configuration and found catalog_uri known, it uses 'rest' for a null
\* or unknown type and adds no 'Unsupported Catalog Type' error, and for any
\* other configured type than 'rest' it adds that error.  A provider
\* configured with such a type is never published as ResourceData or
\* DataSourceData, whichever way Configure returned, and no resource
\* obtains a catalog from it: a catalog a resource holds is a 'rest' one of
\* a published provider.
PvOnlyRestSupported ==
    /\ (pvConfigure.done /\ PvTypeLookedAt /\ ~PvIsSet(pvConfigure.data.type)) =>
           /\ pvProvider.catalogType = "rest"
           /\ UnsupportedCatalogType \notin pvConfigure.diags
    /\ (pvConfigure.done /\ PvTypeLookedAt /\ PvTypeUnsupported) =>
           pvConfigure.diags = {UnsupportedCatalogType}
    /\ PvTypeUnsupported =>
           /\ ~pvConfigure.resourceData
           /\ ~pvConfigure.dataSourceData
           /\ ~pvResource.provider
           /\ pvResource.catalog.nil
    /\ ~pvResource.catalog.nil =>
           /\ pvConfigure.resourceData
           /\ pvResource.catalog.name = "rest"

\* a provider configured with type "glue" was refused with the error, and a
\* resource made afterwards found no provider to take a catalog from
PvUnsupportedTypeRefused ==
    /\ pvConfigure.done
    /\ pvConfigure.data.type = PvString("glue")
    /\ UnsupportedCatalogType \in pvConfigure.diags
    /\ pvResource.made
    /\ ProviderNotConfigured \in pvResource.diags

\* C13 (as stated): whenever Configure has read its configuration, it uses
\* 'rest' for a null or unknown type and adds the 'Unsupported Catalog
\* Type' error for any other configured type than 'rest'.
PvUnsupportedTypeAlwaysReported ==
    (pvConfigure.done /\ pvConfigure.getDiags = {}) =>
        /\ ~PvIsSet(pvConfigure.data.type) => pvProvider.catalogType = "rest"
        /\ PvTypeUnsupported =>
               UnsupportedCatalogType \in pvConfigure.diags

vars == <<nsSrv, nsState, nsLast, prSrv, prState, prLast, prOutside,
          hdrCall, hdrSent, tyParse, tyRound, rtField,
          dpCall, pvProvider, pvConfigure, pvResource>>

Init ==
    /\ NsInit
    /\ PrInit
    /\ HdrInit
    /\ TyInit
    /\ RtInit
    /\ DpInit
    /\ PvInit

InitHeaders ==
    /\ NsInit
    /\ PrInit
    /\ HdrInitCall
    /\ TyInit
    /\ RtInit
    /\ DpInit
    /\ PvInit

InitParse ==
    /\ NsInit
    /\ PrInit
    /\ HdrInit
    /\ TyInitParse
    /\ RtInit
    /\ DpInit
    /\ PvInit

InitConvert ==
    /\ NsInit
    /\ PrInit
    /\ HdrInit
    /\ TyInitRound
    /\ RtInit
    /\ DpInit
    /\ PvInit

SpecNamespace == Init /\ [][NsNext]_vars

SpecPrincipal == Init /\ [][PrNext]_vars

SpecHeaders == InitHeaders /\ [][HdrNext]_vars

SpecParse == InitParse /\ [][ParseTypeString]_vars

SpecConvert == InitConvert /\ [][ConvertNext]_vars

InitRoundTrip ==
    /\ NsInit
    /\ PrInit
    /\ HdrInit
    /\ TyInit
    /\ RtInitField
    /\ DpInit
    /\ PvInit

SpecRoundTrip == InitRoundTrip /\ [][RoundTripNext]_vars

InitDepth ==
    /\ NsInit
    /\ PrInit
    /\ HdrInit
    /\ TyInit
    /\ RtInit
    /\ DpInitCall
    /\ PvInit

SpecDepth == InitDepth /\ [][DepthNext]_vars

InitProvider ==
    /\ NsInit
    /\ PrInit
    /\ HdrInit
    /\ TyInit
    /\ RtInit
    /\ DpInit
    /\ PvInitConfig

SpecProvider == InitProvider /\ [][ProviderNext]_vars

====
